---- MODULE Spec2Model ----
(***************************************************************************)
(* Model of manifest_digitizer.py (CIADManifestDigitizer): the HTTP client *)
(* wrapper, the entity cache, the per-row manifest importer and the entity *)
(* bootstrapper.                                                           *)
(*                                                                         *)
(* Text is a sequence of one-character strings, so that lower(), strip()   *)
(* and substring search are computed, not assumed.  A missing csv cell     *)
(* (pandas NaN) is the one-element sequence NaN.  A Python dict read with  *)
(* .get() is a record whose absent keys hold NoKey (Python's None).        *)
(* The body fields inspectionDate, generationDate and observations are     *)
(* copied from the row and read by no decision of the program; they are    *)
(* left out of the request bodies.                                         *)
(***************************************************************************)
EXTENDS Integers, Sequences, FiniteSets, TLC

VARIABLES
    csv,                 \* rows of rawdata.csv as read by pd.read_csv
    start_from,          \* argument of process_raw_data
    max_records,         \* argument of process_raw_data / setup_base_entities (0: None)
    pc,                  \* position of the single thread of control
    df,                  \* the cleaned, filtered and sliced frame
    idx,                 \* 1-based position of the row loop in df
    vessels_cache,       \* self.vessels_cache       (insertion-ordered dict)
    persons_cache,       \* self.persons_cache
    waste_types_cache,   \* self.waste_types_cache
    system_users_cache,  \* self.system_users_cache
    stats,               \* self.stats
    manifest_data,       \* manifest_data of the row being / last processed
    vessel,              \* local `vessel` of create_compliance_manifest
    compliance_id,       \* local `compliance_id`
    cat,                 \* which of the four waste blocks runs next (1..4)
    waste_records_created, \* local counter of create_compliance_manifest
    row_result,          \* how the last row ended: none/skipped/failed/successful
    reqlog,              \* POST exchanges of the row being / last processed
    posts,               \* POST requests issued so far, per endpoint
    boot,                \* locals of setup_base_entities (todo: names a loop has yet to visit)
    bootlog,             \* create requests issued by setup_base_entities, in order
    call,                \* the _make_request call made directly by a caller
    list_ok,             \* load_entities_cache called directly: which list requests got a response
    main                 \* position of main(): none when a method is called directly

vars == << csv, start_from, max_records, pc, df, idx, vessels_cache,
           persons_cache, waste_types_cache, system_users_cache, stats,
           manifest_data, vessel, compliance_id, cat, waste_records_created,
           row_result, reqlog, posts, boot, bootlog, call, list_ok, main >>

-----------------------------------------------------------------------------
(* Bounds of the model *)

\* longest csv file explored (rows)
MaxRows == 2

-----------------------------------------------------------------------------
(* Python values *)

\* dict.get(key) of an absent key: None
NoKey == -1

\* truthiness of an identifier read with .get(): None and 0 are falsy
Truthy(v) == v # NoKey /\ v # 0

\* x.get('ID') or x.get('id')
GetIdUpperFirst(e) == IF Truthy(e.ID) THEN e.ID ELSE e.id

\* x.get('id') or x.get('ID')
GetIdLowerFirst(e) == IF Truthy(e.id) THEN e.id ELSE e.ID

\* pandas NaN of an empty csv cell
NaN == << "NaN" >>

isna(c) == c = NaN

\* str(cell): the text itself, 'nan' for NaN
Str(c) == IF isna(c) THEN << "n", "a", "n" >> ELSE c

UpperChars == << "A", "B", "C", "D", "E", "F", "G", "J", "L", "M", "O", "P", "S", "T", "U" >>
LowerChars == << "a", "b", "c", "d", "e", "f", "g", "j", "l", "m", "o", "p", "s", "t", "u" >>

LowerChar(c) ==
    IF \E i \in 1..Len(UpperChars) : UpperChars[i] = c
    THEN LowerChars[CHOOSE i \in 1..Len(UpperChars) : UpperChars[i] = c]
    ELSE c

UpperChar(c) ==
    IF \E i \in 1..Len(LowerChars) : LowerChars[i] = c
    THEN UpperChars[CHOOSE i \in 1..Len(LowerChars) : LowerChars[i] = c]
    ELSE c

\* str.lower()
lower(s) == [i \in 1..Len(s) |-> LowerChar(s[i])]

\* str.upper()
upper(s) == [i \in 1..Len(s) |-> UpperChar(s[i])]

\* str.strip()
strip(s) ==
    LET nonblank == {i \in 1..Len(s) : s[i] # " "}
    IN  IF nonblank = {} THEN << >>
        ELSE LET lo == CHOOSE i \in nonblank : \A j \in nonblank : i <= j
                 hi == CHOOSE i \in nonblank : \A j \in nonblank : i >= j
             IN  SubSeq(s, lo, hi)

\* sub in s
contains(s, sub) ==
    \E i \in 0..(Len(s) - Len(sub)) : SubSeq(s, i + 1, i + Len(sub)) = sub

-----------------------------------------------------------------------------
(* _make_request *)

GET  == << "G", "E", "T" >>
POST == << "P", "O", "S", "T" >>

\* a parsed JSON object as the program reads it: response.get('success'),
\* response.get('data'), and the identifiers of a data object
EmptyDict == [success |-> "absent", data |-> "absent", ID |-> NoKey, id |-> NoKey,
              items |-> << >>]

CreateReply(succ, d, upId, lowId) ==
    [success |-> succ, data |-> d, ID |-> upId, id |-> lowId, items |-> << >>]

ListReply(list) ==
    [success |-> "true", data |-> "list", ID |-> NoKey, id |-> NoKey, items |-> list]

\* what the HTTP exchange does: a transport error (ConnectionError, Timeout),
\* or a response with a status, and a body that is empty, JSON or not JSON
Http(err, status, content, body) ==
    [err |-> err, status |-> status, content |-> content, body |-> body]

HttpTransportError == Http(TRUE, 0, "empty", EmptyDict)
HttpStatus(code)   == Http(FALSE, code, "garbage", EmptyDict)
HttpNoContent      == Http(FALSE, 204, "empty", EmptyDict)
HttpGarbage        == Http(FALSE, 200, "garbage", EmptyDict)
HttpJson(body)     == Http(FALSE, 200, "json", body)

Returned(payload) == [raised |-> "no", none |-> FALSE, payload |-> payload]
ReturnedNone      == [raised |-> "no", none |-> TRUE, payload |-> EmptyDict]
Raised(exc)       == [raised |-> exc, none |-> FALSE, payload |-> EmptyDict]

make_request_unsupported_returns_none(method, http) ==
    IF upper(method) # GET /\ upper(method) # POST THEN ReturnedNone
    ELSE IF http.err THEN ReturnedNone
    ELSE IF http.status >= 400 THEN ReturnedNone
    ELSE IF http.content = "empty" THEN Returned(EmptyDict)
    ELSE IF http.content = "garbage" THEN ReturnedNone
    ELSE Returned(http.body)

\* src lines 50-69.  session.get/post raise a RequestException on a transport
\* error, raise_for_status() raises HTTPError (a RequestException) on a 4xx/5xx
\* status, and response.json() raises requests' JSONDecodeError (a
\* RequestException) on a body that is not JSON; ValueError is not caught.
make_request(method, http) ==
    IF upper(method) # GET /\ upper(method) # POST THEN Raised("ValueError")
    ELSE IF http.err THEN ReturnedNone
    ELSE IF http.status >= 400 THEN ReturnedNone
    ELSE IF http.content = "empty" THEN Returned(EmptyDict)
    ELSE IF http.content = "garbage" THEN ReturnedNone
    ELSE Returned(http.body)

\* `response and response.get('success')`
Succeeded(r) == ~r.none /\ r.payload.success = "true"

-----------------------------------------------------------------------------
(* Insertion-ordered dicts (the four caches) *)

Has(d, k) == \E i \in 1..Len(d) : d[i].key = k

Get(d, k) == d[CHOOSE i \in 1..Len(d) : d[i].key = k].val

\* d[k] = v: an existing key keeps its place and takes the new value
Put(d, k, v) ==
    IF Has(d, k)
    THEN [i \in 1..Len(d) |-> IF d[i].key = k THEN [key |-> k, val |-> v] ELSE d[i]]
    ELSE Append(d, [key |-> k, val |-> v])

\* an entity of a list response: its display name and its identifier keys
Entity(name, upId, lowId) == [name |-> name, ID |-> upId, id |-> lowId]

NoEntity == Entity(<< >>, NoKey, NoKey)

Found(e) == [found |-> TRUE, e |-> e]
NotFound == [found |-> FALSE, e |-> NoEntity]

\* the cache key of a display name: name.lower().strip()
CacheKey(name) == strip(lower(name))

RECURSIVE PutAll(_, _)
\* for entity in response['data']: cache[entity[<name>].lower().strip()] = entity
PutAll(d, list) ==
    IF list = << >> THEN d
    ELSE PutAll(Put(d, CacheKey(Head(list).name), Head(list)), Tail(list))

\* `response and response.get('data')` of load_entities_cache
HasData(r) == ~r.none /\ r.payload.data = "list" /\ r.payload.items # << >>

\* `if response and response.get('data'): for ... ` of load_entities_cache
LoadInto(d, r) == IF HasData(r) THEN PutAll(d, r.payload.items) ELSE d

-----------------------------------------------------------------------------
(* Entity resolver *)

find_or_create_vessel_stub(vessel_name) ==
    LET vessel_key == strip(lower(vessel_name))
    IN  IF Has(vessels_cache, vessel_key) THEN Found(Get(vessels_cache, vessel_key))
        ELSE Found(Entity(vessel_name, NoKey, NoKey))

\* src lines 106-113
find_or_create_vessel(vessel_name) ==
    LET vessel_key == strip(lower(vessel_name))
    IN  IF Has(vessels_cache, vessel_key) THEN Found(Get(vessels_cache, vessel_key))
        ELSE NotFound

\* src lines 115-125
find_or_create_person(person_name) ==
    IF person_name = << >> \/ strip(person_name) = << >> THEN NotFound
    ELSE LET person_key == strip(lower(person_name))
         IN  IF Has(persons_cache, person_key) THEN Found(Get(persons_cache, person_key))
             ELSE NotFound

get_waste_type_by_name_no_lower(waste_type_name) ==
    LET waste_key == strip(waste_type_name)
    IN  IF Has(waste_types_cache, waste_key) THEN Found(Get(waste_types_cache, waste_key))
        ELSE NotFound

\* src lines 127-134
get_waste_type_by_name(waste_type_name) ==
    LET waste_key == strip(lower(waste_type_name))
    IN  IF Has(waste_types_cache, waste_key) THEN Found(Get(waste_types_cache, waste_key))
        ELSE NotFound

\* the fallback inspector {'ID': 1, 'FullName': 'Default Inspector'}
DefaultInspectorId == 1

\* src lines 136-143
get_default_inspector ==
    IF system_users_cache # << >> THEN system_users_cache[1].val
    ELSE Entity(<< "D", "e", "f", "a", "u", "l", "t" >>, DefaultInspectorId, NoKey)

-----------------------------------------------------------------------------
(* Value normalizer: clean_numeric_value *)

Digits == << "0", "1", "2", "3", "4", "5", "6", "7", "8", "9" >>

IsDigit(c) == \E i \in 1..10 : Digits[i] = c

DigitVal(c) == (CHOOSE i \in 1..10 : Digits[i] = c) - 1

RECURSIVE DigitsValue(_)
DigitsValue(s) ==
    IF s = << >> THEN 0
    ELSE 10 * DigitsValue(SubSeq(s, 1, Len(s) - 1)) + DigitVal(s[Len(s)])

RECURSIVE Pow10(_)
Pow10(n) == IF n = 0 THEN 1 ELSE 10 * Pow10(n - 1)

\* a non-negative decimal float: num / den, den a power of ten
Float(num, den) == [num |-> num, den |-> den]

FloatZero == Float(0, 1)

FloatAdd(a, b) == Float(a.num * b.den + b.num * a.den, a.den * b.den)

\* the last position of the run of digits that starts at p
RunEnd(s, p) ==
    CHOOSE q \in p..Len(s) :
        /\ \A i \in p..q : IsDigit(s[i])
        /\ (q = Len(s) \/ ~IsDigit(s[q + 1]))

\* re.search(r'(\d+(?:\.\d+)?)', s): the first run of digits, with a fraction
\* when a '.' and at least one digit follow it
clean_numeric_value(cell) ==
    IF cell = << >> \/ isna(cell) THEN FloatZero
    ELSE LET s == strip(Str(cell))
             starts == {i \in 1..Len(s) : IsDigit(s[i])}
         IN  IF starts = {} THEN FloatZero
             ELSE LET p == CHOOSE i \in starts : \A j \in starts : i <= j
                      q == RunEnd(s, p)
                      frac == q + 2 <= Len(s) /\ s[q + 1] = "." /\ IsDigit(s[q + 2])
                  IN  IF frac
                      THEN LET r == RunEnd(s, q + 2)
                           IN  Float(DigitsValue(SubSeq(s, p, q) \o SubSeq(s, q + 2, r)),
                                     Pow10(r - q - 1))
                      ELSE Float(DigitsValue(SubSeq(s, p, q)), 1)

-----------------------------------------------------------------------------
(* The frame: pandas cleaning, filtering and slicing *)

Row(rid, vesselName, date, oil, oilFilters, dieselFilters, junk, captain, chef) ==
    [ID |-> rid, VesselName |-> vesselName, Date |-> date, OilUsed |-> oil,
     OilFiltersUsed |-> oilFilters, DieselFiltersUsed |-> dieselFilters,
     JunkReported |-> junk, CaptainFullName |-> captain, ChefFullName |-> chef]

\* the cell of a column the csv file does not have: row[<column>] raises KeyError
NoColumn == << "KeyError" >>

\* the file without its 'ID' column
without_ID_column(rows) == [i \in 1..Len(rows) |-> [rows[i] EXCEPT !.ID = NoColumn]]

\* every column the file has holds NaN in this row
AllNa(r) ==
    /\ (isna(r.ID) \/ r.ID = NoColumn) /\ isna(r.VesselName) /\ isna(r.Date) /\ isna(r.OilUsed)
    /\ isna(r.OilFiltersUsed) /\ isna(r.DieselFiltersUsed) /\ isna(r.JunkReported)
    /\ isna(r.CaptainFullName) /\ isna(r.ChefFullName)

\* df.dropna(how='all')
dropna_all(rows) == SelectSeq(rows, LAMBDA r : ~AllNa(r))

\* df['Vessel Name'].str.lower().str.contains('test', na=False)
IsTestRow(r) ==
    ~isna(r.VesselName) /\ contains(lower(r.VesselName), << "t", "e", "s", "t" >>)

\* df[~...contains('test', na=False)]
drop_test(rows) == SelectSeq(rows, LAMBDA r : ~IsTestRow(r))

Min(a, b) == IF a <= b THEN a ELSE b
Max(a, b) == IF a >= b THEN a ELSE b

\* df.iloc[n:]
iloc_from(rows, n) == SubSeq(rows, n + 1, Len(rows))

\* df.head(n)
head(rows, n) ==
    IF n >= 0 THEN SubSeq(rows, 1, Min(n, Len(rows)))
    ELSE SubSeq(rows, 1, Max(Len(rows) + n, 0))

import_frame_slice_first(rows, start, maxrec) ==
    LET sliced == IF start > 0 THEN iloc_from(rows, start) ELSE rows
        capped == IF maxrec # 0 THEN head(sliced, maxrec) ELSE sliced
    IN  drop_test(dropna_all(capped))

\* src lines 328-338 of process_raw_data
import_frame(rows, start, maxrec) ==
    LET cleaned == drop_test(dropna_all(rows))
        sliced  == IF start > 0 THEN iloc_from(cleaned, start) ELSE cleaned
    IN  IF maxrec # 0 THEN head(sliced, maxrec) ELSE sliced

\* src lines 445-450 of setup_base_entities
bootstrap_frame(rows, maxrec) ==
    LET cleaned == drop_test(dropna_all(rows))
    IN  IF maxrec # 0 THEN head(cleaned, maxrec) ELSE cleaned

-----------------------------------------------------------------------------
(* Manifest importer: create_compliance_manifest *)

\* the four hardcoded waste type names of create_compliance_manifest
Aceite == << "A", "c", "e", "i", "t", "e" >>
FiltrosDeAceite ==
    << "F", "i", "l", "t", "r", "o", "s", " ", "d", "e", " ", "A", "c", "e", "i", "t", "e" >>
FiltrosDiesel ==
    << "F", "i", "l", "t", "r", "o", "s", " ", "D", "i", "e", "s", "e", "l" >>
DesechosSolidos ==
    << "D", "e", "s", "e", "c", "h", "o", "s", " ", "S", "o", "l", "i", "d", "o", "s" >>

\* the waste blocks in source order: oil, oil filters, diesel filters, junk
WasteTypeName(c) ==
    CASE c = 1 -> Aceite
      [] c = 2 -> FiltrosDeAceite
      [] c = 3 -> FiltrosDiesel
      [] c = 4 -> DesechosSolidos

Quantity(md, c) ==
    CASE c = 1 -> md.oil_used
      [] c = 2 -> md.oil_filters_used
      [] c = 3 -> md.diesel_filters_used
      [] c = 4 -> md.junk_reported

NoManifest ==
    [vessel_name |-> << >>, oil_used |-> FloatZero, oil_filters_used |-> FloatZero,
     diesel_filters_used |-> FloatZero, junk_reported |-> FloatZero,
     captain_name |-> << >>, chef_name |-> << >>]

\* src lines 351-361: manifest_data of a row
ParseRow(row) ==
    [vessel_name         |-> strip(Str(row.VesselName)),
     oil_used            |-> clean_numeric_value(row.OilUsed),
     oil_filters_used    |-> clean_numeric_value(row.OilFiltersUsed),
     diesel_filters_used |-> clean_numeric_value(row.DieselFiltersUsed),
     junk_reported       |-> clean_numeric_value(row.JunkReported),
     captain_name        |-> IF ~isna(row.CaptainFullName)
                             THEN strip(Str(row.CaptainFullName)) ELSE << >>,
     chef_name           |-> IF ~isna(row.ChefFullName)
                             THEN strip(Str(row.ChefFullName)) ELSE << >>]

raises_KeyError_never(row) == FALSE

\* src line 360: row['ID'] of a file without that column raises KeyError while
\* manifest_data is built
raises_KeyError(row) == row.ID = NoColumn

\* src lines 364-365
total_waste(md) ==
    FloatAdd(FloatAdd(md.oil_used, md.oil_filters_used),
             FloatAdd(md.diesel_filters_used, md.junk_reported))

no_waste_reported_never(md) == total_waste(md).num < 0

\* src line 367: total_waste == 0
no_waste_reported(md) == total_waste(md).num = 0

\* the fallback signer of src line 172
DefaultSigner == 1

signers_ids_no_fallback(md) ==
    LET captain == find_or_create_person(md.captain_name)
        chef    == find_or_create_person(md.chef_name)
    IN  (IF captain.found /\ Truthy(GetIdUpperFirst(captain.e))
         THEN << GetIdUpperFirst(captain.e) >> ELSE << >>)
        \o (IF chef.found /\ Truthy(GetIdUpperFirst(chef.e))
            THEN << GetIdUpperFirst(chef.e) >> ELSE << >>)

\* src lines 154-172
signers_ids(md) ==
    LET captain == find_or_create_person(md.captain_name)
        chef    == find_or_create_person(md.chef_name)
        found   == (IF captain.found /\ Truthy(GetIdUpperFirst(captain.e))
                    THEN << GetIdUpperFirst(captain.e) >> ELSE << >>)
                   \o (IF chef.found /\ Truthy(GetIdUpperFirst(chef.e))
                       THEN << GetIdUpperFirst(chef.e) >> ELSE << >>)
    IN  IF found = << >> THEN << DefaultSigner >> ELSE found

\* one POST exchange: the endpoint, the body fields, and what _make_request returned
Exchange(endpoint, vesselId, systemUserId, signers, wasteTypeId, quantity, complianceId, category, resp) ==
    [endpoint |-> endpoint, vesselId |-> vesselId, systemUserId |-> systemUserId,
     signersIds |-> signers, wasteTypeId |-> wasteTypeId,
     quantityGenerated |-> quantity, complianceId |-> complianceId,
     category |-> category, resp |-> resp]

\* src lines 174-188: compliance_data, posted to /compliances
compliance_exchange(md, v, resp) ==
    Exchange("compliances", GetIdUpperFirst(v), GetIdUpperFirst(get_default_inspector),
             signers_ids(md), NoKey, FloatZero, NoKey, 0, resp)

\* src lines 214-222 (and the three blocks after it): waste_data, posted to /wastes
waste_exchange(md, v, c, wasteType, cid, resp) ==
    Exchange("wastes", GetIdUpperFirst(v), NoKey, << >>, wasteType.id,
             Quantity(md, c), cid, c, resp)

\* src line 199: compliance.get(...) of a data payload that is a non-empty
\* list, not an object, raises AttributeError
raises_AttributeError(r) ==
    Succeeded(r) /\ r.payload.data = "list" /\ r.payload.items # << >>

compliance_accepted_on_success_only(r) == ~r.none /\ r.payload.success = "true"

compliance_accepted_upper_only(r) ==
    /\ ~r.none
    /\ r.payload.success = "true"
    /\ r.payload.data # "absent"
    /\ Truthy(r.payload.ID)

\* src lines 190-205: the response passes every check before the waste
\* records, and raises nothing on the way (the handler of src lines 282-286
\* returns False)
compliance_accepted(r) ==
    /\ ~r.none
    /\ r.payload.success = "true"
    /\ r.payload.data # "absent"
    /\ ~raises_AttributeError(r)
    /\ Truthy(GetIdLowerFirst(r.payload))

-----------------------------------------------------------------------------
(* The backend and the input files explored *)

\* GET /vessels: two vessels share a normalized name, with the identifier
\* under either casing
BackendVessels ==
    << Entity(<< "A", "b" >>, 21, NoKey),
       Entity(<< "a", "b", " " >>, NoKey, 22),
       Entity(<< "C" >>, 23, NoKey),
       Entity(<< "T", "e", "s", "t" >>, 24, NoKey) >>

BackendPersons ==
    << Entity(<< "J", "o" >>, 11, NoKey),
       Entity(<< " ", "m" >>, NoKey, 12) >>

\* GET /wasteTypes: no "Filtros de Aceite" type exists
BackendWasteTypes ==
    << Entity(Aceite, NoKey, 31),
       Entity(FiltrosDiesel, 32, NoKey),
       Entity(DesechosSolidos, NoKey, 33) >>

BackendSystemUsers ==
    << Entity(<< "A", "n", "a" >>, NoKey, 41),
       Entity(<< "B", "o" >>, 42, NoKey) >>

\* what a list request can meet
ListOutcomes(list) ==
    { HttpTransportError, HttpStatus(500), HttpNoContent, HttpJson(ListReply(list)) }

\* what POST /compliances can meet
ComplianceOutcomes ==
    { HttpTransportError, HttpStatus(500), HttpNoContent, HttpGarbage,
      HttpJson(CreateReply("true", "object", NoKey, 51)),
      HttpJson(CreateReply("true", "object", 52, NoKey)),
      HttpJson(CreateReply("true", "object", 52, 51)),
      HttpJson(CreateReply("true", "object", NoKey, NoKey)),
      HttpJson(CreateReply("true", "absent", NoKey, NoKey)),
      HttpJson(CreateReply("false", "absent", NoKey, NoKey)),
      HttpJson(CreateReply("absent", "object", NoKey, 51)),
      HttpJson(ListReply(<< Entity(<< >>, NoKey, 53) >>)) }

\* what POST /wastes can meet
WasteOutcomes ==
    { HttpTransportError, HttpStatus(400),
      HttpJson(CreateReply("false", "absent", NoKey, NoKey)),
      HttpJson(CreateReply("true", "object", NoKey, 71)) }

SomeDate == << "2", "0", "2", "4", "/", "0", "1", "/", "1", "0" >>

\* oil only; vessel and captain in the backend, no chef
rOil ==
    Row(<< "7" >>, << "A", "b" >>, SomeDate, << "5", "0", " ", "l" >>, << "0" >>,
        << "0" >>, << "0" >>, << "J", "o" >>, NaN)

\* oil, oil filters and junk; captain and chef in the backend
rMulti ==
    Row(<< "8" >>, << " ", "c" >>, SomeDate, << "0", ".", "5" >>, << "3" >>,
        NaN, << "1", " ", "k", "g" >>, << "j", "O", " " >>, << "M" >>)

\* diesel filters only; the captain is unknown to the backend and the chef is blank
rAnon ==
    Row(<< "9" >>, << "a", "B" >>, SomeDate, NaN, NaN, << "x", "4" >>, << "x" >>,
        << "z" >>, << " " >>)

\* no vessel name
rNoVessel ==
    Row(<< "1", "0" >>, NaN, SomeDate, << "1" >>, NaN, NaN, NaN, << "J", "o" >>, NaN)

\* no waste reported
rZero ==
    Row(<< "1", "1" >>, << "A", "b" >>, SomeDate, << "0" >>, NaN, << "x" >>,
        << "0", ".", "0" >>, << "J", "o" >>, NaN)

\* a test record, of a vessel the backend knows
rTest ==
    Row(<< "1", "2" >>, << "T", "e", "S", "t" >>, SomeDate, << "9" >>, NaN, NaN, NaN,
        << "Q" >>, << "K" >>)

\* an entirely empty record
rEmpty == Row(NaN, NaN, NaN, NaN, NaN, NaN, NaN, NaN, NaN)

RowSet == { rOil, rMulti, rAnon, rNoVessel, rZero, rTest, rEmpty }

Files(rows) == UNION { [1..n -> rows] : n \in 0..MaxRows }

\* start_from: none, and one record
StartChoices == { 0, 1 }

\* max_records: 0 stands for None (and for 0, which `if max_records:` treats alike)
MaxRecordsChoices == { 0, 1 }

-----------------------------------------------------------------------------
(* State *)

NoStats == [processed |-> 0, successful |-> 0, failed |-> 0, skipped |-> 0]

NoBoot ==
    [unique_vessels |-> {}, unique_captains |-> {}, unique_chefs |-> {},
     todo |-> {}, unknown_owner_id |-> NoKey, created_captains |-> 0,
     created_chefs |-> 0, created_vessels |-> 0, result |-> "none"]

NoCall == [method |-> << >>, http |-> HttpTransportError, result |-> ReturnedNone]

\* no list request has been answered yet
NoLists == [vessels |-> FALSE, persons |-> FALSE, wasteTypes |-> FALSE,
            systemUsers |-> FALSE]

\* CIADManifestDigitizer.__init__, and no call in progress
Constructed ==
    /\ df = << >>
    /\ idx = 1
    /\ vessels_cache = << >>
    /\ persons_cache = << >>
    /\ waste_types_cache = << >>
    /\ system_users_cache = << >>
    /\ stats = NoStats
    /\ manifest_data = NoManifest
    /\ vessel = NoEntity
    /\ compliance_id = NoKey
    /\ cat = 1
    /\ waste_records_created = 0
    /\ row_result = "none"
    /\ reqlog = << >>
    /\ posts = [compliances |-> 0, wastes |-> 0]
    /\ boot = NoBoot
    /\ bootlog = << >>
    /\ call = NoCall
    /\ list_ok = NoLists

\* process_raw_data('rawdata.csv', start_from, max_records) is about to run
InitImport ==
    /\ csv \in Files(RowSet)
    /\ start_from \in StartChoices
    /\ max_records \in MaxRecordsChoices
    /\ pc = "process_raw_data"
    /\ main = "none"
    /\ Constructed

\* setup_base_entities('rawdata.csv', max_records) is about to run
InitBootstrap ==
    /\ csv \in Files(RowSet)
    /\ start_from = 0
    /\ max_records \in MaxRecordsChoices
    /\ pc = "setup_base_entities"
    /\ main = "none"
    /\ Constructed

\* a caller is about to call _make_request
InitRequest ==
    /\ csv = << >>
    /\ start_from = 0
    /\ max_records = 0
    /\ pc = "make_request"
    /\ main = "none"
    /\ Constructed

Init == InitImport \/ InitBootstrap \/ InitRequest

-----------------------------------------------------------------------------
(* process_raw_data *)

\* src lines 325-340: read, clean, filter, slice
ReadFrame ==
    /\ pc = "process_raw_data"
    /\ df' = import_frame(csv, start_from, max_records)
    /\ idx' = 1
    /\ pc' = "load_entities_cache"
    /\ UNCHANGED << main, list_ok, csv, start_from, max_records, vessels_cache, persons_cache,
                    waste_types_cache, system_users_cache, stats, manifest_data,
                    vessel, compliance_id, cat, waste_records_created, row_result,
                    reqlog, posts, boot, bootlog, call >>

\* src lines 76-101: the four list requests met hv, hp, hw, hu; each response
\* with data is written over the sub-cache as it stands
LoadCaches(hv, hp, hw, hu) ==
    /\ vessels_cache' = LoadInto(vessels_cache, make_request(GET, hv))
    /\ persons_cache' = LoadInto(persons_cache, make_request(GET, hp))
    /\ waste_types_cache' = LoadInto(waste_types_cache, make_request(GET, hw))
    /\ system_users_cache' = LoadInto(system_users_cache, make_request(GET, hu))

\* src lines 71-104, called by process_raw_data
load_entities_cache ==
    /\ pc = "load_entities_cache"
    /\ \E hv \in ListOutcomes(BackendVessels), hp \in ListOutcomes(BackendPersons),
          hw \in ListOutcomes(BackendWasteTypes), hu \in ListOutcomes(BackendSystemUsers) :
          LoadCaches(hv, hp, hw, hu)
    /\ pc' = "rows"
    /\ UNCHANGED << main, list_ok, csv, start_from, max_records, df, idx, stats, manifest_data,
                    vessel, compliance_id, cat, waste_records_created, row_result,
                    reqlog, posts, boot, bootlog, call >>

Bump_by_two(st, counter) == [st EXCEPT ![counter] = @ + 2]

\* self.stats[counter] += 1
Bump(st, counter) == [st EXCEPT ![counter] = @ + 1]

\* src lines 346-380 with lines 147-205 of create_compliance_manifest: one
\* iteration of the row loop up to the return of the compliance request
BeginRow ==
    /\ pc = "rows"
    /\ idx <= Len(df)
    /\ LET md == ParseRow(df[idx])
           counted == Bump(stats, "processed")
           v == find_or_create_vessel(md.vessel_name)
       IN  /\ manifest_data' = IF raises_KeyError(df[idx]) THEN manifest_data ELSE md
           /\ cat' = 1
           /\ waste_records_created' = 0
           /\ IF raises_KeyError(df[idx])
              THEN \* src lines 388-391: the exception is caught at the row boundary
                   /\ stats' = Bump(counted, "failed")
                   /\ row_result' = "failed"
                   /\ idx' = idx + 1
                   /\ pc' = "rows"
                   /\ reqlog' = << >>
                   /\ UNCHANGED << vessel, compliance_id, posts >>
              ELSE IF no_waste_reported(md)
              THEN \* skip: no waste reported
                   /\ stats' = Bump(counted, "skipped")
                   /\ row_result' = "skipped"
                   /\ idx' = idx + 1
                   /\ pc' = "rows"
                   /\ reqlog' = << >>
                   /\ UNCHANGED << vessel, compliance_id, posts >>
              ELSE IF ~v.found
              THEN \* the vessel is not in the cache: return False
                   /\ stats' = Bump(counted, "failed")
                   /\ row_result' = "failed"
                   /\ idx' = idx + 1
                   /\ pc' = "rows"
                   /\ reqlog' = << >>
                   /\ UNCHANGED << vessel, compliance_id, posts >>
              ELSE \E http \in ComplianceOutcomes :
                   LET resp == make_request(POST, http)
                   IN  /\ vessel' = v.e
                       /\ reqlog' = << compliance_exchange(md, v.e, resp) >>
                       /\ posts' = Bump(posts, "compliances")
                       /\ IF compliance_accepted(resp)
                          THEN /\ compliance_id' = GetIdLowerFirst(resp.payload)
                               /\ stats' = counted
                               /\ row_result' = "pending"
                               /\ pc' = "wastes"
                               /\ idx' = idx
                          ELSE /\ compliance_id' = NoKey
                               /\ stats' = Bump(counted, "failed")
                               /\ row_result' = "failed"
                               /\ pc' = "rows"
                               /\ idx' = idx + 1
    /\ UNCHANGED << main, list_ok, csv, start_from, max_records, df, vessels_cache, persons_cache,
                    waste_types_cache, system_users_cache, boot, bootlog, call >>

\* src lines 210-277: the waste block of category cat
WasteBlock ==
    /\ pc = "wastes"
    /\ LET wt == get_waste_type_by_name(WasteTypeName(cat))
       IN  IF Quantity(manifest_data, cat).num > 0 /\ wt.found
           THEN \E http \in WasteOutcomes :
                LET resp == make_request(POST, http)
                IN  /\ reqlog' = Append(reqlog,
                           waste_exchange(manifest_data, vessel, cat, wt.e,
                                          compliance_id, resp))
                    /\ posts' = Bump(posts, "wastes")
                    /\ waste_records_created' =
                           IF Succeeded(resp) THEN waste_records_created + 1
                           ELSE waste_records_created
           ELSE UNCHANGED << reqlog, posts, waste_records_created >>
    /\ IF cat = 4 THEN pc' = "return_true" /\ cat' = cat
       ELSE pc' = "wastes" /\ cat' = cat + 1
    /\ UNCHANGED << main, list_ok, csv, start_from, max_records, df, idx, vessels_cache,
                    persons_cache, waste_types_cache, system_users_cache, stats,
                    manifest_data, vessel, compliance_id, row_result, boot, bootlog,
                    call >>

\* src lines 279-280 and 375-377: return True, counted as successful
EndRow ==
    /\ pc = "return_true"
    /\ stats' = Bump(stats, "successful")
    /\ row_result' = "successful"
    /\ idx' = idx + 1
    /\ pc' = "rows"
    /\ UNCHANGED << main, list_ok, csv, start_from, max_records, df, vessels_cache, persons_cache,
                    waste_types_cache, system_users_cache, manifest_data, vessel,
                    compliance_id, cat, waste_records_created, reqlog, posts, boot,
                    bootlog, call >>

\* src line 393: the loop is over
ReturnStats ==
    /\ pc = "rows"
    /\ idx > Len(df)
    /\ pc' = "returned"
    /\ UNCHANGED << main, list_ok, csv, start_from, max_records, df, idx, vessels_cache,
                    persons_cache, waste_types_cache, system_users_cache, stats,
                    manifest_data, vessel, compliance_id, cat, waste_records_created,
                    row_result, reqlog, posts, boot, bootlog, call >>

NextImport ==
    ReadFrame \/ load_entities_cache \/ BeginRow \/ WasteBlock \/ EndRow \/ ReturnStats

SpecImport == InitImport /\ [][NextImport]_vars

\* process_raw_data is about to run on a file that may lack its 'ID' column
InitImportAnyFile ==
    /\ \E f \in Files(RowSet) : csv \in { f, without_ID_column(f) }
    /\ start_from \in StartChoices
    /\ max_records \in MaxRecordsChoices
    /\ pc = "process_raw_data"
    /\ main = "none"
    /\ Constructed

SpecImportAnyFile == InitImportAnyFile /\ [][NextImport]_vars

-----------------------------------------------------------------------------
(* Entity bootstrapper: setup_base_entities *)

\* person type codes of src lines 455-457
COCINERO_TYPE == 1
MOTORISTA_TYPE == 2
PROPIETARIO_TYPE == 3

UnknownOwner ==
    << "U", "n", "k", "n", "o", "w", "n", " ", "O", "w", "n", "e", "r" >>

\* what POST /persons meets for the owner
OwnerOutcomes ==
    { HttpStatus(500),
      HttpJson(CreateReply("false", "absent", NoKey, NoKey)),
      HttpJson(CreateReply("true", "absent", NoKey, NoKey)),
      HttpJson(CreateReply("true", "object", 61, NoKey)),
      HttpJson(CreateReply("true", "object", NoKey, 62)) }

\* what POST /persons and POST /vessels meet for the other entities
BatchOutcomes ==
    { HttpTransportError,
      HttpJson(CreateReply("false", "absent", NoKey, NoKey)),
      HttpJson(CreateReply("true", "absent", NoKey, NoKey)),
      HttpJson(CreateReply("true", "object", NoKey, 81)) }

\* what create_person_batch / create_vessel_batch do with the response:
\* return the data object, return None, or raise AttributeError on
\* `person.get` when a successful response carries no data
BatchCreated(payload) == [outcome |-> "created", entity |-> payload]
BatchFailed == [outcome |-> "failed", entity |-> EmptyDict]
BatchRaised == [outcome |-> "raised", entity |-> EmptyDict]

create_person_batch_returns_response(response) ==
    IF ~response.none /\ response.payload # EmptyDict
    THEN BatchCreated(response.payload)
    ELSE BatchFailed

\* src lines 407-415: what create_person_batch does with the response of its
\* POST /persons
create_person_batch(response) ==
    IF Succeeded(response)
    THEN IF response.payload.data = "absent" THEN BatchRaised
         ELSE BatchCreated(response.payload)
    ELSE BatchFailed

\* src lines 425-433: what create_vessel_batch does with the response of its
\* POST /vessels
create_vessel_batch(response) ==
    IF Succeeded(response)
    THEN IF response.payload.data = "absent" THEN BatchRaised
         ELSE BatchCreated(response.payload)
    ELSE BatchFailed

\* one create request of the bootstrapper and how it ended
BootEntry(endpoint, name, personTypeId, ownerId, response, outcome) ==
    [endpoint |-> endpoint, name |-> name, personTypeId |-> personTypeId,
     ownerId |-> ownerId, success |-> Succeeded(response), outcome |-> outcome]

nan == << "n", "a", "n" >>

\* src lines 465-475: the stripped, non-blank, non-'nan' texts of a column
unique_names(frame, column) ==
    { strip(Str(frame[i][column])) : i \in 1..Len(frame) } \ { << >>, nan }

\* src lines 441-488: read and filter the frame, collect the names, create the
\* owner
CreateOwner ==
    /\ pc = "setup_base_entities"
    /\ LET frame == bootstrap_frame(csv, max_records)
           found == [boot EXCEPT !.unique_vessels = unique_names(frame, "VesselName"),
                                 !.unique_captains = unique_names(frame, "CaptainFullName"),
                                 !.unique_chefs = unique_names(frame, "ChefFullName")]
       IN  /\ df' = frame
           /\ \E http \in OwnerOutcomes :
              LET response == make_request(POST, http)
                  unknown_owner == create_person_batch(response)
              IN  /\ bootlog' = << BootEntry("persons", UnknownOwner, PROPIETARIO_TYPE,
                                             NoKey, response, unknown_owner.outcome) >>
                  /\ IF unknown_owner.outcome = "created"
                     THEN /\ boot' = [found EXCEPT
                                  !.unknown_owner_id = GetIdUpperFirst(unknown_owner.entity),
                                  !.todo = found.unique_captains]
                          /\ pc' = "captains"
                     ELSE /\ boot' = [found EXCEPT !.result = "error"]
                          /\ pc' = "returned"
    /\ UNCHANGED << main, list_ok, csv, start_from, max_records, idx, vessels_cache, persons_cache,
                    waste_types_cache, system_users_cache, stats, manifest_data,
                    vessel, compliance_id, cat, waste_records_created, row_result,
                    reqlog, posts, call >>

BootUnchanged ==
    UNCHANGED << main, list_ok, csv, start_from, max_records, df, idx, vessels_cache, persons_cache,
                 waste_types_cache, system_users_cache, stats, manifest_data, vessel,
                 compliance_id, cat, waste_records_created, row_result, reqlog, posts,
                 call >>

\* how one iteration of a creation loop ends: counted, not counted, or the
\* exception reaches the handler of src lines 525-527
AfterCreate(created, counter) ==
    IF created.outcome = "raised"
    THEN /\ boot' = [boot EXCEPT !.result = "error"]
         /\ pc' = "returned"
    ELSE /\ boot' = [boot EXCEPT
                 !.todo = boot.todo \ { created.name },
                 ![counter] = IF created.outcome = "created" THEN @ + 1 ELSE @]
         /\ pc' = pc

\* src lines 493-495: one iteration over unique_captains, in the set's order
CreateCaptain ==
    /\ pc = "captains"
    /\ \E captain_name \in boot.todo, http \in BatchOutcomes :
       LET response == make_request(POST, http)
           created == create_person_batch(response)
       IN  /\ bootlog' = Append(bootlog, BootEntry("persons", captain_name,
                                    MOTORISTA_TYPE, NoKey, response, created.outcome))
           /\ AfterCreate([outcome |-> created.outcome, name |-> captain_name],
                          "created_captains")
    /\ BootUnchanged

\* src lines 497-499: the captains are done
StartChefs ==
    /\ pc = "captains"
    /\ boot.todo = {}
    /\ boot' = [boot EXCEPT !.todo = boot.unique_chefs]
    /\ pc' = "chefs"
    /\ UNCHANGED bootlog
    /\ BootUnchanged

\* src lines 500-502: one iteration over unique_chefs
CreateChef ==
    /\ pc = "chefs"
    /\ \E chef_name \in boot.todo, http \in BatchOutcomes :
       LET response == make_request(POST, http)
           created == create_person_batch(response)
       IN  /\ bootlog' = Append(bootlog, BootEntry("persons", chef_name,
                                    COCINERO_TYPE, NoKey, response, created.outcome))
           /\ AfterCreate([outcome |-> created.outcome, name |-> chef_name],
                          "created_chefs")
    /\ BootUnchanged

\* src lines 504-506: the chefs are done
StartVessels ==
    /\ pc = "chefs"
    /\ boot.todo = {}
    /\ boot' = [boot EXCEPT !.todo = boot.unique_vessels]
    /\ pc' = "vessels"
    /\ UNCHANGED bootlog
    /\ BootUnchanged

\* src lines 507-509: one iteration over unique_vessels
CreateVessel ==
    /\ pc = "vessels"
    /\ \E vessel_name \in boot.todo, http \in BatchOutcomes :
       LET response == make_request(POST, http)
           created == create_vessel_batch(response)
       IN  /\ bootlog' = Append(bootlog, BootEntry("vessels", vessel_name, 0,
                                    boot.unknown_owner_id, response, created.outcome))
           /\ AfterCreate([outcome |-> created.outcome, name |-> vessel_name],
                          "created_vessels")
    /\ BootUnchanged

\* src lines 511-523: return the counts
ReturnCounts ==
    /\ pc = "vessels"
    /\ boot.todo = {}
    /\ boot' = [boot EXCEPT !.result = "counts"]
    /\ pc' = "returned"
    /\ UNCHANGED bootlog
    /\ BootUnchanged

NextBootstrap ==
    CreateOwner \/ CreateCaptain \/ StartChefs \/ CreateChef \/ StartVessels
    \/ CreateVessel \/ ReturnCounts

SpecBootstrap == InitBootstrap /\ [][NextBootstrap]_vars

-----------------------------------------------------------------------------
(* A direct call of _make_request *)

Methods ==
    { GET, POST, << "g", "e", "t" >>, << "P", "o", "s", "t" >>, << "P", "U", "T" >>,
      << "p", "u", "t" >>, << "D", "E", "L", "E", "T", "E" >>, << >> }

RequestOutcomes ==
    ComplianceOutcomes \cup WasteOutcomes \cup OwnerOutcomes
    \cup ListOutcomes(BackendVessels) \cup ListOutcomes(BackendWasteTypes)
    \cup { HttpStatus(404), Http(FALSE, 201, "json", EmptyDict) }

CallMakeRequest ==
    /\ pc = "make_request"
    /\ \E method \in Methods, http \in RequestOutcomes :
          call' = [method |-> method, http |-> http, result |-> make_request(method, http)]
    /\ pc' = "returned"
    /\ UNCHANGED << main, list_ok, csv, start_from, max_records, df, idx, vessels_cache, persons_cache,
                    waste_types_cache, system_users_cache, stats, manifest_data, vessel,
                    compliance_id, cat, waste_records_created, row_result, reqlog, posts,
                    boot, bootlog >>

NextRequest == CallMakeRequest

SpecRequest == InitRequest /\ [][NextRequest]_vars

-----------------------------------------------------------------------------
(* Any of the three entry points *)

Next == NextImport \/ NextBootstrap \/ NextRequest

Spec == Init /\ [][Next]_vars

-----------------------------------------------------------------------------
(* load_entities_cache called twice on one digitizer *)

\* what a list request can meet on a later call: the backend may by then hold
\* only its first entity, or none
ReloadOutcomes(list) ==
    ListOutcomes(list) \cup { HttpJson(ListReply(SubSeq(list, 1, 1))),
                              HttpJson(ListReply(<< >>)) }

\* a caller is about to call load_entities_cache on a new digitizer
InitReload ==
    /\ csv = << >>
    /\ start_from = 0
    /\ max_records = 0
    /\ pc = "first_load"
    /\ main = "none"
    /\ Constructed

\* src lines 71-104, called directly: the first call, then the second
CallLoadEntitiesCache ==
    /\ pc \in { "first_load", "second_load" }
    /\ \E hv \in ReloadOutcomes(BackendVessels), hp \in ReloadOutcomes(BackendPersons),
          hw \in ReloadOutcomes(BackendWasteTypes),
          hu \in ReloadOutcomes(BackendSystemUsers) :
          /\ LoadCaches(hv, hp, hw, hu)
          /\ list_ok' = [vessels |-> ~make_request(GET, hv).none,
                         persons |-> ~make_request(GET, hp).none,
                         wasteTypes |-> ~make_request(GET, hw).none,
                         systemUsers |-> ~make_request(GET, hu).none]
    /\ pc' = IF pc = "first_load" THEN "second_load" ELSE "returned"
    /\ UNCHANGED << main, csv, start_from, max_records, df, idx, stats, manifest_data,
                    vessel, compliance_id, cat, waste_records_created, row_result,
                    reqlog, posts, boot, bootlog, call >>

NextReload == CallLoadEntitiesCache

SpecReload == InitReload /\ [][NextReload]_vars

-----------------------------------------------------------------------------
(* main(), menu choice 3: the bootstrapper, then the importer *)

\* src line 609: manifest_records is an integer, 50 when nothing is typed; no
\* file explored is longer than the second choice
ManifestRecordsChoices == { 1, MaxRows + 1 }

\* src lines 590-598: choice 3 was typed and setup_base_entities is about to run
\* the files of the full mode: records with a captain and a chef, and empty
\* records
MainRowSet == { rMulti, rEmpty }

InitMain ==
    /\ csv \in Files(MainRowSet)
    /\ start_from = 0
    /\ max_records \in MaxRecordsChoices
    /\ pc = "setup_base_entities"
    /\ main = "full_phase1"
    /\ Constructed

MainUnchanged ==
    UNCHANGED << list_ok, csv, df, idx, vessels_cache, persons_cache,
                 waste_types_cache, system_users_cache, stats, manifest_data, vessel,
                 compliance_id, cat, waste_records_created, row_result, reqlog, posts,
                 boot, bootlog, call >>

\* src lines 600-602: `if 'error' in entity_stats: ... return`
MainReturnAfterError ==
    /\ main = "full_phase1"
    /\ pc = "returned"
    /\ boot.result = "error"
    /\ main' = "returned"
    /\ UNCHANGED << pc, start_from, max_records >>
    /\ MainUnchanged

\* src lines 604-611: process_raw_data('rawdata.csv', 0, manifest_records)
MainStartImport ==
    /\ main = "full_phase1"
    /\ pc = "returned"
    /\ boot.result = "counts"
    /\ main' = "full_phase2"
    /\ pc' = "process_raw_data"
    /\ start_from' = 0
    /\ max_records' \in ManifestRecordsChoices
    /\ MainUnchanged

\* src lines 613-617: the importer returned its counters and main() ends
MainReturn ==
    /\ main = "full_phase2"
    /\ pc = "returned"
    /\ main' = "returned"
    /\ UNCHANGED << pc, start_from, max_records >>
    /\ MainUnchanged

NextMain ==
    NextBootstrap \/ NextImport \/ MainReturnAfterError \/ MainStartImport
    \/ MainReturn

SpecMain == InitMain /\ [][NextMain]_vars

-----------------------------------------------------------------------------
(* Properties of the importer *)

\* the four extracted quantities of a row are all zero
AllZero(md) ==
    /\ md.oil_used.num = 0
    /\ md.oil_filters_used.num = 0
    /\ md.diesel_filters_used.num = 0
    /\ md.junk_reported.num = 0

\* k is a key of cache d
InCache(d, k) == \E i \in 1..Len(d) : d[i].key = k

\* the entity cached under k
Cached(d, k) == d[CHOOSE i \in 1..Len(d) : d[i].key = k].val

\* the identifiers an object carries, under either casing
IdsOf(e) == { e.ID, e.id } \ { NoKey }

\* the row loop is about to process df[idx]
AtRow == pc = "rows" /\ idx <= Len(df)

\* the row loop is between two rows, or over
RowBoundary == pc = "rows" \/ (pc = "returned" /\ boot.result = "none" /\ call = NoCall)

\* C1: a row whose four extracted quantities are all zero issues no create
\* request, adds exactly 1 to 'skipped' and leaves 'successful' and 'failed'
\* as they were.
C1_ZeroRowSkipped ==
    [][ (AtRow /\ AllZero(ParseRow(df[idx])))
        => /\ posts' = posts
           /\ reqlog' = << >>
           /\ stats'.skipped = stats.skipped + 1
           /\ stats'.successful = stats.successful
           /\ stats'.failed = stats.failed
           /\ pc' = "rows" /\ idx' = idx + 1 ]_vars

\* a row of a vessel the cache knows was skipped for having no waste
C1_Witness ==
    /\ row_result = "skipped"
    /\ AllZero(manifest_data)
    /\ stats.skipped = 1
    /\ InCache(vessels_cache, strip(lower(manifest_data.vessel_name)))

\* C2: a non-skipped row whose normalized vessel name is no key of the vessel
\* cache fails without any POST and is counted in 'failed'; with an empty
\* vessel cache the run issues no create request at all.
C2_UnknownVesselFails ==
    /\ [][ (/\ AtRow
            /\ ~AllZero(ParseRow(df[idx]))
            /\ ~InCache(vessels_cache, strip(lower(ParseRow(df[idx]).vessel_name))))
           => /\ posts' = posts
              /\ reqlog' = << >>
              /\ stats'.failed = stats.failed + 1
              /\ stats'.successful = stats.successful
              /\ stats'.skipped = stats.skipped
              /\ pc' = "rows" /\ idx' = idx + 1 ]_vars
    /\ [](vessels_cache = << >> => posts.compliances = 0 /\ posts.wastes = 0)

\* a row with waste failed on its vessel although the cache holds vessels
C2_Witness ==
    /\ row_result = "failed"
    /\ reqlog = << >>
    /\ ~AllZero(manifest_data)
    /\ vessels_cache # << >>
    /\ ~InCache(vessels_cache, strip(lower(manifest_data.vessel_name)))
    /\ stats.failed = 1

\* the compliance response is absent, or lacks a truthy success indicator, a
\* data payload, or an identifier under both casings
Rejected(r) ==
    \/ r.none
    \/ r.payload.success # "true"
    \/ r.payload.data = "absent"
    \/ (~Truthy(r.payload.ID) /\ ~Truthy(r.payload.id))

\* the row being processed has a waste record to create
HasWasteToCreate ==
    \E c \in 1..4 :
        /\ Quantity(manifest_data, c).num > 0
        /\ InCache(waste_types_cache, strip(lower(WasteTypeName(c))))

\* C3: within a row the POST /compliances comes first and every POST /wastes
\* after it; when the compliance response is rejected no POST /wastes is
\* issued for the row and the row fails.
C3_WastesAfterCompliance ==
    /\ \A i \in 1..Len(reqlog) :
           IF i = 1 THEN reqlog[i].endpoint = "compliances"
           ELSE reqlog[i].endpoint = "wastes"
    /\ posts.wastes > 0 => posts.compliances > 0
    /\ (reqlog # << >> /\ Rejected(reqlog[1].resp))
       => /\ Len(reqlog) = 1
          /\ row_result = "failed"
          /\ RowBoundary

\* a response with success true and a data object without identifier failed
\* a row that had a waste record to create
C3_Witness ==
    /\ Len(reqlog) = 1
    /\ row_result = "failed"
    /\ reqlog[1].resp.payload.success = "true"
    /\ reqlog[1].resp.payload.data = "object"
    /\ IdsOf(reqlog[1].resp.payload) = {}
    /\ HasWasteToCreate

\* C4 as stated: a row whose compliance response carries a truthy success
\* indicator is counted successful, whatever became of its waste submissions.
C4_SuccessIndicatorSuffices ==
    (RowBoundary /\ reqlog # << >>
     /\ ~reqlog[1].resp.none /\ reqlog[1].resp.payload.success = "true")
    => row_result = "successful"

\* C4 amended: a row whose compliance response carries a truthy success
\* indicator, a data payload and a truthy identifier under one of the two
\* casings is counted successful (exactly once), whatever became of its waste
\* submissions.
C4_AcceptedRowSuccessful ==
    /\ []((RowBoundary /\ reqlog # << >> /\ ~Rejected(reqlog[1].resp))
          => row_result = "successful")
    /\ []((reqlog # << >> /\ ~Rejected(reqlog[1].resp))
          => row_result \in { "pending", "successful" })
    /\ [][ (row_result' = "successful" /\ row_result # "successful")
           => /\ stats'.successful = stats.successful + 1
              /\ stats'.failed = stats.failed
              /\ stats'.skipped = stats.skipped ]_vars

\* a row was counted successful although one waste submission failed and one
\* category found no waste type
C4_Witness ==
    /\ row_result = "successful"
    /\ stats.successful = 1
    /\ \E i \in 2..Len(reqlog) : ~Succeeded(reqlog[i].resp)
    /\ \E c \in 1..4 :
           /\ Quantity(manifest_data, c).num > 0
           /\ ~InCache(waste_types_cache, strip(lower(WasteTypeName(c))))

\* the identifier of the person cached under a name, as a list; empty when the
\* name is blank or not cached
SignerOf(name) ==
    IF strip(name) # << >> /\ InCache(persons_cache, strip(lower(name)))
    THEN LET e == Cached(persons_cache, strip(lower(name)))
         IN  << IF e.ID # NoKey THEN e.ID ELSE e.id >>
    ELSE << >>

\* C5: signersIds of every POST /compliances is the captain's identifier then
\* the chef's, for whichever of them the persons cache resolved, and exactly
\* [1] when neither resolved; so it has one or two elements.
C5_SignersIds ==
    (reqlog # << >>)
    => LET resolved == SignerOf(manifest_data.captain_name)
                       \o SignerOf(manifest_data.chef_name)
           sent == reqlog[1].signersIds
       IN  /\ resolved # << >> => sent = resolved
           /\ resolved = << >> => sent = << 1 >>
           /\ Len(sent) \in { 1, 2 }

\* a compliance was posted with the fallback signer: the captain is unknown to
\* a loaded persons cache and the chef is blank
C5_Witness ==
    /\ reqlog # << >>
    /\ persons_cache # << >>
    /\ manifest_data.captain_name # << >>
    /\ SignerOf(manifest_data.captain_name) = << >>
    /\ SignerOf(manifest_data.chef_name) = << >>
    /\ reqlog[1].signersIds = << 1 >>

\* the waste blocks that have run for the current row
BlocksDone == IF pc = "wastes" THEN cat - 1 ELSE 4

\* the categories among the first n with a positive quantity and a cached type
ExpectedCategories(n) ==
    SelectSeq(<< 1, 2, 3, 4 >>,
              LAMBDA c : /\ c <= n
                         /\ Quantity(manifest_data, c).num > 0
                         /\ InCache(waste_types_cache, strip(lower(WasteTypeName(c)))))

\* C6: after the compliance of a row was created with identifier C, the POST
\* /wastes requests of the row are, in source order, exactly one for each
\* category with a positive quantity and a cached waste type, each carrying
\* complianceId C, the row's vessel id and the category's quantity, whether or
\* not an earlier waste request failed.
C6_OneWastePerCategory ==
    (row_result \in { "pending", "successful" })
    => LET expected == ExpectedCategories(BlocksDone)
           created == reqlog[1].resp.payload
           v == Cached(vessels_cache, strip(lower(manifest_data.vessel_name)))
       IN  /\ Len(reqlog) = 1 + Len(expected)
           /\ \A i \in 1..Len(expected) :
                  /\ reqlog[i + 1].endpoint = "wastes"
                  /\ reqlog[i + 1].category = expected[i]
                  /\ reqlog[i + 1].complianceId \in IdsOf(created)
                  /\ reqlog[i + 1].complianceId = compliance_id
                  /\ reqlog[i + 1].vesselId \in IdsOf(v)
                  /\ reqlog[i + 1].quantityGenerated = Quantity(manifest_data, expected[i])

\* the oil request failed, the oil filters found no waste type, and the junk
\* request was still issued, once
C6_Witness ==
    /\ row_result = "successful"
    /\ Len(reqlog) = 3
    /\ reqlog[2].category = 1 /\ ~Succeeded(reqlog[2].resp)
    /\ manifest_data.oil_filters_used.num > 0
    /\ reqlog[3].category = 4

-----------------------------------------------------------------------------
(* Properties of the bootstrapper *)

\* the phase a create request belongs to: owner, captain, chef, vessel
Phase(entry) ==
    IF entry.endpoint = "vessels" THEN 4
    ELSE IF entry.personTypeId = PROPIETARIO_TYPE THEN 1
    ELSE IF entry.personTypeId = MOTORISTA_TYPE THEN 2
    ELSE 3

\* C7: the bootstrapper issues the single 'Unknown Owner' create first, then
\* the captain creates, then the chef creates, then the vessel creates; when
\* the owner create fails it returns an error and issues no other create.
C7_BootstrapOrder ==
    /\ \A i \in 1..Len(bootlog) :
           /\ (Phase(bootlog[i]) = 1) <=> (i = 1)
           /\ (i = 1) => bootlog[i].name = UnknownOwner
           /\ \A j \in i..Len(bootlog) : Phase(bootlog[i]) <= Phase(bootlog[j])
    /\ (bootlog # << >> /\ ~bootlog[1].success)
       => /\ Len(bootlog) = 1
          /\ pc = "returned"
          /\ boot.result = "error"

\* the owner create failed with captains, chefs and vessels waiting
C7_Witness ==
    /\ Len(bootlog) = 1
    /\ ~bootlog[1].success
    /\ boot.result = "error"
    /\ boot.unique_captains # {}
    /\ boot.unique_chefs # {}
    /\ boot.unique_vessels # {}

\* the distinct stripped non-blank texts of a column of the rows the
\* bootstrapper reads
DistinctNames(column) ==
    { strip(df[i][column]) :
        i \in { j \in 1..Len(df) : ~isna(df[j][column]) /\ strip(df[j][column]) # << >> } }

\* the create requests of a phase
EntriesOf(phase) == { i \in 1..Len(bootlog) : Phase(bootlog[i]) = phase }

\* one create request per name of the set, and none else, in the phase
OnePerName(phase, names) ==
    /\ \A n \in names : Cardinality({ i \in EntriesOf(phase) : bootlog[i].name = n }) = 1
    /\ \A i \in EntriesOf(phase) : bootlog[i].name \in names

Successes(phase) == Cardinality({ i \in EntriesOf(phase) : bootlog[i].success })

\* C8: once the owner is created, setup_base_entities issues one person create
\* per distinct captain name, one per distinct chef name and one vessel create
\* per distinct vessel name, every vessel create with the owner's identifier,
\* whatever the outcome of the other creates, and returns as counts the numbers
\* of successful creates.
C8_IndependentCreates ==
    (pc = "returned" /\ bootlog # << >> /\ bootlog[1].outcome = "created")
    => /\ boot.result = "counts"
       /\ OnePerName(2, DistinctNames("CaptainFullName"))
       /\ OnePerName(3, DistinctNames("ChefFullName"))
       /\ OnePerName(4, DistinctNames("VesselName"))
       /\ \A i \in EntriesOf(4) : bootlog[i].ownerId = boot.unknown_owner_id
       /\ boot.created_captains = Successes(2)
       /\ boot.created_chefs = Successes(3)
       /\ boot.created_vessels = Successes(4)

-----------------------------------------------------------------------------
(* Properties of the input filter *)

\* the vessel name of a row contains 'test' in some letter case
TestNamed(r) ==
    /\ r.VesselName # NaN
    /\ \E i \in 1..(Len(r.VesselName) - 3) :
           /\ r.VesselName[i] \in { "t", "T" }
           /\ r.VesselName[i + 1] \in { "e", "E" }
           /\ r.VesselName[i + 2] \in { "s", "S" }
           /\ r.VesselName[i + 3] \in { "t", "T" }

\* the rows of the csv file that are neither empty nor test records
KeptRows == { i \in 1..Len(csv) : csv[i] # rEmpty /\ ~TestNamed(csv[i]) }

\* how many rows the importer visits: the kept rows after start_from, at most
\* max_records of them
ExpectedProcessed ==
    LET after == IF Cardinality(KeptRows) > start_from
                 THEN Cardinality(KeptRows) - start_from ELSE 0
    IN  IF max_records # 0 /\ max_records < after THEN max_records ELSE after

\* the texts of a column in the kept rows
KeptNames(column) == { strip(Str(csv[i][column])) : i \in KeptRows }

ImportOver == pc = "returned" /\ boot.result = "none" /\ call = NoCall

\* C9: rows whose vessel name contains 'test' in any letter case are dropped
\* before the slice: they are never counted, never processed into a request
\* and give no name to the bootstrapper's sets.
C9_TestRowsExcluded ==
    /\ \A i \in 1..Len(df) : ~TestNamed(df[i])
    /\ stats.processed <= ExpectedProcessed
    /\ stats.processed = stats.successful + stats.failed + stats.skipped
                         + (IF row_result = "pending" THEN 1 ELSE 0)
    /\ ImportOver => stats.processed = ExpectedProcessed
    /\ row_result # "none" => manifest_data.vessel_name \in KeptNames("VesselName")
    /\ posts.compliances + posts.wastes > 0
       => \E i \in KeptRows : strip(Str(csv[i].VesselName)) = manifest_data.vessel_name
    /\ boot.unique_vessels \subseteq KeptNames("VesselName")
    /\ boot.unique_captains \subseteq KeptNames("CaptainFullName")
    /\ boot.unique_chefs \subseteq KeptNames("ChefFullName")
    /\ \A i \in 2..Len(bootlog) :
           bootlog[i].name \in KeptNames("VesselName") \cup KeptNames("CaptainFullName")
                               \cup KeptNames("ChefFullName")

\* a file that starts with a test record was imported from record 1 on: the
\* test record did not count as record 0, so the second row was sliced away
C9_Witness ==
    /\ ImportOver
    /\ Len(csv) = 2
    /\ TestNamed(csv[1])
    /\ ~TestNamed(csv[2]) /\ csv[2] # rEmpty
    /\ start_from = 1
    /\ stats.processed = 0
    /\ posts.compliances = 0

-----------------------------------------------------------------------------
(* Properties of _make_request *)

IsGetOrPost(m) ==
    \/ /\ Len(m) = 3
       /\ m[1] \in { "g", "G" } /\ m[2] \in { "e", "E" } /\ m[3] \in { "t", "T" }
    \/ /\ Len(m) = 4
       /\ m[1] \in { "p", "P" } /\ m[2] \in { "o", "O" }
       /\ m[3] \in { "s", "S" } /\ m[4] \in { "t", "T" }

-----------------------------------------------------------------------------
(* Properties of main() *)

\* the bootstrapper returned because the 'Unknown Owner' was not created
OwnerFailed ==
    /\ pc = "returned"
    /\ boot.result = "error"
    /\ Len(bootlog) = 1
    /\ bootlog[1].name = UnknownOwner

\* C11: in the full mode, when the bootstrapper gave up because the 'Unknown
\* Owner' could not be created, main() goes on to run the importer pass.
C11_ImporterRunsAfterOwnerFailure ==
    [][ (main = "full_phase1" /\ OwnerFailed /\ main' # main)
        => (main' = "full_phase2" /\ pc' = "process_raw_data") ]_vars

-----------------------------------------------------------------------------
(* Properties of the row loop *)

\* the rows process_raw_data has to visit
FrameOf == import_frame(csv, start_from, max_records)

\* building manifest_data of this row fails: the file has no 'ID' column
ParseFails(row) == row.ID = << "KeyError" >>

\* the compliance response makes create_compliance_manifest raise: its data
\* payload is a non-empty list
PayloadFails(r) ==
    ~r.none /\ r.payload.success = "true" /\ r.payload.data = "list"
    /\ r.payload.items # << >>

\* the row just begun ended with 'failed' one higher and the loop at the next row
FailedOnceAndOn ==
    /\ stats'.failed = stats.failed + 1
    /\ stats'.successful = stats.successful
    /\ stats'.skipped = stats.skipped
    /\ stats'.processed = stats.processed + 1
    /\ idx' = idx + 1
    /\ pc' = "rows"

\* the guard of one of the six steps of process_raw_data holds (what follows
\* the guard in each step is total: every outcome set is non-empty)
CanStep ==
    \/ pc = "process_raw_data"
    \/ pc = "load_entities_cache"
    \/ (pc = "rows" /\ idx <= Len(df))
    \/ (pc = "wastes" /\ cat \in 1..4)
    \/ pc = "return_true"
    \/ (pc = "rows" /\ idx > Len(df))

\* an upper bound of the steps process_raw_data has yet to take: at most six
\* for a row (its begin, four waste blocks, its end)
StepsLeft ==
    LET rows == Len(FrameOf) + 1 - idx
    IN  CASE pc = "process_raw_data"    -> 6 * Len(FrameOf) + 3
          [] pc = "load_entities_cache" -> 6 * Len(FrameOf) + 2
          [] pc = "rows"                -> 6 * rows + 1
          [] pc = "wastes"              -> 6 * (rows - 1) + 2 + (5 - cat)
          [] pc = "return_true"         -> 6 * (rows - 1) + 2
          [] pc = "returned"            -> 0

\* C12: a row whose processing raises (KeyError while manifest_data is built,
\* AttributeError inside create_compliance_manifest) adds exactly 1 to
\* 'failed' and the loop goes on with the next row; the rows of the filtered
\* and sliced frame are visited once each, in order, and process_raw_data
\* returns with 'processed' equal to their number.  It terminates: until it
\* has returned a step is possible, and every step lowers StepsLeft, which is
\* never negative.
C12_ExceptionRowFailsLoopContinues ==
    /\ [][ (AtRow /\ ParseFails(df[idx])) => (FailedOnceAndOn /\ posts' = posts) ]_vars
    /\ [][ (AtRow /\ reqlog' # << >> /\ PayloadFails(reqlog'[1].resp))
           => (FailedOnceAndOn /\ posts'.wastes = posts.wastes) ]_vars
    /\ [][ stats'.processed # stats.processed
           => (AtRow /\ stats.processed = idx - 1 /\ stats'.processed = idx) ]_vars
    /\ [][ idx' # idx => (idx' = idx + 1 /\ stats'.processed = idx /\ pc' = "rows") ]_vars
    /\ [](pc # "process_raw_data" => df = FrameOf)
    /\ [](ImportOver => (stats.processed = Len(FrameOf) /\ idx = Len(FrameOf) + 1))
    /\ [](~ImportOver => CanStep)
    /\ [](StepsLeft >= 0 /\ (StepsLeft = 0 <=> ImportOver))
    /\ [][ StepsLeft' < StepsLeft ]_vars

\* a file without 'ID' column was imported: its waste-free record and its oil
\* record both raised, both were counted failed, and the import returned
C12_Witness ==
    /\ ImportOver
    /\ df = without_ID_column(<< rZero, rOil >>)
    /\ stats = [processed |-> 2, successful |-> 0, failed |-> 2, skipped |-> 0]
    /\ posts.compliances = 0

-----------------------------------------------------------------------------
(* Properties of the identifiers *)

\* the identifiers of the entities a cache holds
CachedIds(d) == UNION { IdsOf(d[i].val) : i \in 1..Len(d) }

\* the identifiers of a request body are those of the entities it names,
\* under whichever casing each entity carries its identifier
BodyIdentifiersRead(x) ==
    /\ x.vesselId \in IdsOf(vessel)
    /\ x.endpoint = "compliances"
       => /\ x.systemUserId \in
                 (IF system_users_cache = << >> THEN { DefaultInspectorId }
                  ELSE IdsOf(system_users_cache[1].val))
          /\ \A k \in 1..Len(x.signersIds) :
                 x.signersIds[k] \in CachedIds(persons_cache) \cup { DefaultSigner }
    /\ x.endpoint = "wastes"
       => /\ x.complianceId \in IdsOf(reqlog[1].resp.payload)
          /\ x.wasteTypeId \in
                 IdsOf(Cached(waste_types_cache, strip(lower(WasteTypeName(x.category)))))

\* C13: every identifier of a request body (vesselId, systemUserId,
\* signersIds, complianceId, wasteTypeId) equals the identifier of the entity
\* it was read from, whether the backend sent that identifier as 'ID' or 'id'.
C13_IdentifiersUnderBothCasings ==
    \A i \in 1..Len(reqlog) : BodyIdentifiersRead(reqlog[i])

-----------------------------------------------------------------------------
(* Properties of the entity cache *)

\* a direct call of load_entities_cache has returned
CacheLoaded == pc = "second_load" \/ (pc = "returned" /\ call = NoCall /\ boot = NoBoot)

\* every sub-cache whose list request got no response is empty
FailedListsEmpty ==
    /\ ~list_ok.vessels => vessels_cache = << >>
    /\ ~list_ok.persons => persons_cache = << >>
    /\ ~list_ok.wasteTypes => waste_types_cache = << >>
    /\ ~list_ok.systemUsers => system_users_cache = << >>

\* C14: after any call of load_entities_cache, the first or a later one on
\* the same digitizer, each sub-cache whose list request failed is empty.
C14_FailedListLeavesCacheEmpty == CacheLoaded => FailedListsEmpty

-----------------------------------------------------------------------------
(* Properties of the counters *)

\* the row whose compliance was created and whose waste blocks are running
\* is counted in 'processed' and in no other counter yet
InRow == IF pc \in { "wastes", "return_true" } THEN 1 ELSE 0

Outcomes(st) == st.successful + st.failed + st.skipped

\* C15: between two rows and at the return, processed = successful + failed +
\* skipped; no counter ever decreases; a row adds 1 to exactly one of
\* successful, failed, skipped; and the POST /compliances issued never
\* outnumber successful + failed.
C15_CounterConservation ==
    /\ [](RowBoundary => stats.processed = Outcomes(stats))
    /\ [](stats.processed = Outcomes(stats) + InRow)
    /\ [](RowBoundary => posts.compliances <= stats.successful + stats.failed)
    /\ [](posts.compliances <= stats.successful + stats.failed + InRow)
    /\ [][ /\ stats'.processed >= stats.processed
           /\ stats'.successful >= stats.successful
           /\ stats'.failed >= stats.failed
           /\ stats'.skipped >= stats.skipped ]_vars
    /\ [][ idx' # idx
           => /\ Outcomes(stats') = Outcomes(stats) + 1
              /\ stats'.successful - stats.successful \in { 0, 1 }
              /\ stats'.failed - stats.failed \in { 0, 1 }
              /\ stats'.skipped - stats.skipped \in { 0, 1 } ]_vars
    /\ [][ Outcomes(stats') # Outcomes(stats) => idx' = idx + 1 ]_vars

\* two records were imported: one failed without a request for want of its
\* vessel, the other was created, and the counters add up
C15_Witness ==
    /\ ImportOver
    /\ Len(df) = 2
    /\ stats = [processed |-> 2, successful |-> 1, failed |-> 1, skipped |-> 0]
    /\ posts.compliances = 1

====
